---------------------------- MODULE Spec2Model ----------------------------
(***************************************************************************)
(* A model of the container pool (src/experiment/container_pool.py) and of *)
(* the container tool it hands out (src/tool/container_tool.py).           *)
(*                                                                         *)
(* Four parts share one state:                                             *)
(*   - the pool's queue and the callers that get and release pairs;        *)
(*   - the construction of the pool (ContainerPool.__init__ and            *)
(*     ProjectContainerTool.__init__) and the host directories it needs;   *)
(*   - the operations of one constructed container tool (execute,          *)
(*     compile, fuzz, get_coverage, update_runtime);                       *)
(*   - the compile script in the tool's container and its patching.        *)
(* Each part has its own specification; the variables of the other parts   *)
(* keep their initial value under it.                                      *)
(***************************************************************************)
EXTENDS Integers, Sequences, FiniteSets, TLC

\* ------------------------------------------------------------------ bounds
MaxPoolSize == 2
NumCallers == 3
MaxDup == 1

AllPairs == 1..MaxPoolSize
Callers == 1..NumCallers

VARIABLES
    pool_size,      \* ContainerPool.__init__'s pool_size argument
    containers,     \* ContainerPool.containers: the manager queue, oldest first
    pc,             \* per caller: "idle", or "get" while inside get_container_pair
    held,           \* per caller and pair: how many references to it the caller got and has not released
    released,       \* history: some release_container_pair call has happened
    dups,           \* history: releases of a pair the caller did not hold
    initpc,         \* ContainerPool.__init__: "building", "done" or "raised"
    pairObjs,       \* the ContainerPair objects built so far; a pair's id is its index
    aborted,        \* the steps run by the constructor call that raised, if one did
    tool,           \* one constructed ProjectContainerTool, the one the calls below are made on
    last,           \* the last call made on tool: its inputs and what came back
    n_samples,      \* history: how many runtimes update_runtime was given
    sum_samples,    \* history: the sum of the runtimes update_runtime was given
    fuzz_running,   \* fuzz driver processes of earlier fuzz calls that are still running
    host_dirs,      \* which of the project's host directories (out, work, ccache) exist
    script,         \* /usr/local/bin/compile in tool's container, as content.split("\n")
    script_before,  \* history: script as it was before the last patch_compile_script
    patches         \* history: how many times patch_compile_script has run on script

poolVars == <<pool_size, containers, pc, held, released, dups>>
buildVars == <<initpc, pairObjs, aborted>>
toolVars == <<tool, last, n_samples, sum_samples, fuzz_running>>

envVars == <<host_dirs, script, script_before, patches>>

vars == <<poolVars, buildVars, toolVars, envVars>>

\* ------------------------------------------------------------ rationals
\* Python floats are modelled by exact rationals <<numerator, denominator>>,
\* denominator positive, in lowest terms.
Abs(x) == IF x < 0 THEN -x ELSE x

RECURSIVE Gcd(_, _)
Gcd(a, b) == IF b = 0 THEN a ELSE Gcd(b, a % b)

RatNorm(n, d) ==
    LET g == Gcd(Abs(n), Abs(d))
        sgn == IF d < 0 THEN -1 ELSE 1
    IN <<(sgn * n) \div g, (sgn * d) \div g>>

Rat(n) == <<n, 1>>
RatAdd(x, y) == RatNorm(x[1] * y[2] + y[1] * x[2], x[2] * y[2])
RatSub(x, y) == RatNorm(x[1] * y[2] - y[1] * x[2], x[2] * y[2])
RatDivInt(x, k) == RatNorm(x[1], x[2] * k)
RatLess(x, y) == x[1] * y[2] < y[1] * x[2]
RatLeq(x, y) == x[1] * y[2] <= y[1] * x[2]
RatMax(x, y) == IF RatLess(x, y) THEN y ELSE x

\* ------------------------------------------------------------ the queue
\* multiprocessing.Manager().Queue() is built with no maxsize: put never waits.
QueuePutReadyBounded(q) == Len(q) < pool_size
QueuePutReady(q) == TRUE

QueuePutDrop(q, item) == q
QueuePut(q, item) == Append(q, item)

\* Queue.get() with block=True, timeout=None: it waits until an item is there.
QueueGetReadyNoWait(q) == TRUE
QueueGetReady(q) == Len(q) > 0

NoPair == 0

QueueGetNewest(q) == IF q = <<>> THEN [item |-> NoPair, rest |-> q]
                     ELSE [item |-> q[Len(q)], rest |-> SubSeq(q, 1, Len(q) - 1)]
QueueGetPeek(q) == IF q = <<>> THEN [item |-> NoPair, rest |-> q]
                   ELSE [item |-> Head(q), rest |-> q]
QueueGet(q) == IF q = <<>> THEN [item |-> NoPair, rest |-> q]
               ELSE [item |-> Head(q), rest |-> Tail(q)]

\* ------------------------------------------------------------ counting
RECURSIVE SumOver(_, _)
SumOver(f, S) == IF S = {} THEN 0
                 ELSE LET x == CHOOSE y \in S : TRUE
                      IN f[x] + SumOver(f, S \ {x})

Pairs == 1..pool_size
HeldCount(p) == SumOver([c \in Callers |-> held[c][p]], Callers)
CheckedOut == SumOver([p \in AllPairs |-> HeldCount(p)], AllPairs)
Holders(p) == {c \in Callers : held[c][p] > 0}

\* ------------------------------------------------- building one tool
SYSTEM_CORES == 24

SANITIZERS == {"coverage", "address"}

\* What prepare_project_image_by_name_w_rebuild can return: nothing, or an
\* image reference, which carries the ofg-cached tag or not.
NoImage == [project |-> "", cached |-> FALSE]
ColdImage == [project |-> "proj", cached |-> FALSE]
WarmImage == [project |-> "proj", cached |-> TRUE]
ImageResults == {NoImage, ColdImage, WarmImage}

\* How the docker run command of _start_docker_container can end: exit 0 with
\* the container id on stdout, a non-zero exit, or a command that cannot be run.
StartOutcomes == {"ok", "nonzero", "cannot_run"}

CompletedProcess(rc, out, err) == [returncode |-> rc, stdout |-> out, stderr |-> err]

\* _execute_command: an exception of sp.run becomes a result with exit code 1.
ExecuteCommand(o) ==
    IF o = "cannot_run" THEN CompletedProcess(1, "", "")
    ELSE IF o = "ok" THEN CompletedProcess(0, "cid", "")
    ELSE CompletedProcess(125, "", "docker: error")

\* A Python None where a string or a number is expected.
None == "None"

\* Inputs of the calls.  A log path is absent, opens, or cannot be opened; a
\* subprocess exits with 0, exits with 1, or cannot be started at all.
LogPaths == {"none", "ok", "unopenable"}
RunOutcomes == {"exit0", "exit1", "cannot_run"}
ExitCode(run) == IF run = "exit0" THEN 0 ELSE 1

\* _execute_command_in_container (lines 144-184): open() of the log file comes
\* before the try; inside it every exception of sp.run becomes a result.
\* stderr goes to the log file when there is one, and is then not captured.
ExecuteCommandInContainer(run, log) ==
    IF log = "unopenable"
    THEN [raised |-> TRUE]
    ELSE IF run = "cannot_run"
    THEN [raised |-> FALSE, result |-> CompletedProcess(1, "", "")]
    ELSE [raised |-> FALSE,
          result |-> CompletedProcess(ExitCode(run), "stdout text",
                                      IF log = "none" THEN "stderr text" ELSE None)]

\* execute (lines 271-288): docker exec in the container, then args is set.
ExecuteResult(command, run, log) ==
    LET r == ExecuteCommandInContainer(run, log)
    IN IF r.raised THEN [raised |-> TRUE]
       ELSE [raised |-> FALSE,
             result |-> [args |-> command,
                         returncode |-> r.result.returncode,
                         stdout |-> r.result.stdout,
                         stderr |-> r.result.stderr]]

\* ------------------------------------------------- the compile script
\* A file's content is held as Python's content.split("\n") gives it: the
\* pieces between the newlines, so that a file that ends with a newline has
\* the empty string as its last piece.  No piece holds original_cmd together
\* with other text: a piece is the command or does not contain it.
original_cmd == "COPY_SOURCES_CMD=\"cp -rL --parents $SRC $WORK /usr/include /usr/local/include $GOPATH $OSSFUZZ_RUSTPATH /rustc $OUT\""
new_cmd == "COPY_SOURCES_CMD=\"cp -rL --parents $WORK /usr/include /usr/local/include $GOPATH $OSSFUZZ_RUSTPATH /rustc $OUT\""
other_cmd == "COPY_SOURCES_CMD=\"cp -rL --parents $SRC $WORK $OUT\""
OFG_EOF == "OFG_EOF"

\* compile_contents.replace(original_cmd, new_cmd), line 119.
Replace(content) ==
    [i \in 1..Len(content) |->
        IF content[i] = original_cmd THEN new_cmd ELSE content[i]]

\* What the shell stores for cat << "OFG_EOF" > file\n{content}\nOFG_EOF:
\* the lines up to the first line that is the delimiter, each with its
\* newline; the delimiter is quoted, so nothing is expanded.
FirstDelimiter(content) ==
    LET at == {i \in 1..Len(content) : content[i] = OFG_EOF}
    IN IF at = {} THEN Len(content) + 1
       ELSE CHOOSE i \in at : \A j \in at : i <= j

HereDocument(content) == SubSeq(content, 1, FirstDelimiter(content) - 1) \o <<"">>

\* proc.stdout of execute("cat /usr/local/bin/compile"), lines 116-117: the
\* file, or the empty string when the command failed or could not be run.
CatStdout(file, run) ==
    LET proc == ExecuteResult("cat /usr/local/bin/compile", run, "none")
    IN IF proc.result.returncode = 0 THEN file ELSE <<"">>

\* write_to_file (lines 418-422): the file afterwards; the result of execute
\* is not looked at, and a command that failed has written nothing.
WriteToFile(content, file, run) ==
    IF run = "exit0" THEN HereDocument(content) ELSE file

\* patch_compile_script (lines 108-121): the compile script afterwards.
PatchedScript(file, read, write) ==
    WriteToFile(Replace(CatStdout(file, read)), file, write)

\* The compile script of an image, and the state of a tool's surroundings
\* once its constructor has patched that script.
ImageScript == <<"#!/bin/bash -eu", original_cmd, "">>
HostDirs == {"out", "work", "ccache"}

EnvBuilt ==
    /\ host_dirs = HostDirs
    /\ script = PatchedScript(ImageScript, "exit0", "exit0")
    /\ script_before = ImageScript
    /\ patches = 1

\* _validate_sanitizer raises unless this holds.
ValidateSanitizer(sanitizer) == sanitizer \in SANITIZERS

\* _prepare_project_image raises unless the collaborator gave an image.
PrepareProjectImageAny(img) == TRUE
PrepareProjectImageOk(img) == img # NoImage

\* _check_chronos_build_success: "ofg-cached" in image_name.
CheckChronosBuildSuccess(img) == img.cached

\* _start_docker_container: the two makedirs, the docker run, and the container
\* id read from its stdout whatever its exit code was.  hostdirs are the host
\* directories that exist when the docker run command is issued; what the
\* docker daemon does afterwards with a bind mount whose source is missing is
\* not part of the program.
StartDockerContainer(o) ==
    LET result == ExecuteCommand(o)
    IN [hostdirs |-> host_dirs \cup {"out", "work"},
        container_id |-> result.stdout,
        returncode |-> result.returncode,
        raises |-> FALSE]

\* The steps __init__ runs once the container start has returned.
StepsAfterStart(chronos) ==
    <<"backup", "project_dir">>
        \o (IF ~chronos THEN <<"setup_env">> ELSE <<>>)
        \o <<"patch", "tracker">>

NoTool == [sanitizer |-> "", container_id |-> ""]

\* ProjectContainerTool.__init__: whether it raised, the steps it ran, the
\* host directories that exist afterwards, and the object it built.
Construct(sanitizer, cores, img, o) ==
    IF ~ValidateSanitizer(sanitizer)
    THEN [raised |-> TRUE, steps |-> <<"validate">>, tool |-> NoTool,
          host_dirs |-> host_dirs]
    ELSE IF ~PrepareProjectImageOk(img)
    THEN [raised |-> TRUE, steps |-> <<"validate", "image">>, tool |-> NoTool,
          host_dirs |-> host_dirs]
    ELSE
      LET chronos == CheckChronosBuildSuccess(img)
          started == StartDockerContainer(o)
      IN IF started.raises
         THEN [raised |-> TRUE,
               steps |-> <<"validate", "image", "makedirs", "start">>,
               tool |-> NoTool,
               host_dirs |-> started.hostdirs]
         ELSE [raised |-> FALSE,
               steps |-> <<"validate", "image", "makedirs", "start">>
                            \o StepsAfterStart(chronos),
               host_dirs |-> started.hostdirs,
               tool |-> [sanitizer |-> sanitizer,
                         pool_size |-> cores,
                         image_name |-> img,
                         rebuild_chronos_success |-> chronos,
                         generated_oss_fuzz_name |-> img.project,
                         hostdirs |-> started.hostdirs,
                         container_id |-> started.container_id,
                         container_running |-> (o = "ok"),
                         init_steps |-> <<"validate", "image", "makedirs", "start">>
                                            \o StepsAfterStart(chronos),
                         avg_cov_runtime |-> Rat(-1),
                         total_cov_executions |-> 0]]

\* ContainerPool.__init__ line 28.
CoresPerContainer(size) == RatMax(Rat(1), RatNorm(SYSTEM_CORES, size))

\* create_container_pair: the address tool, then the coverage tool.
CreateContainerPair(cores, ia, sa, ic, sc) ==
    LET a == Construct("address", cores, ia, sa)
        c == Construct("coverage", cores, ic, sc)
    IN IF a.raised
       THEN [raised |-> TRUE, steps |-> a.steps, pair |-> <<>>,
             host_dirs |-> a.host_dirs]
       ELSE IF c.raised
       THEN [raised |-> TRUE, steps |-> c.steps, pair |-> <<>>,
             host_dirs |-> a.host_dirs \cup c.host_dirs]
       ELSE [raised |-> FALSE, steps |-> <<>>,
             host_dirs |-> a.host_dirs \cup c.host_dirs,
             pair |-> [address_container |-> a.tool,
                       coverage_container |-> c.tool]]

\* No call has been made on the tool yet.
NoCall == [op |-> "none", raised |-> FALSE]

\* A pair as a pool of the given size builds it when every collaborator works.
BuiltPair(size) ==
    CreateContainerPair(CoresPerContainer(size), WarmImage, "ok", WarmImage, "ok").pair

\* ------------------------------------------------------------ the pool
\* The pool once __init__ has returned: pool_size pairs, in construction order.
InitPool ==
    /\ EnvBuilt
    /\ pool_size \in 1..MaxPoolSize
    /\ containers = [i \in 1..pool_size |-> i]
    /\ pc = [c \in Callers |-> "idle"]
    /\ held = [c \in Callers |-> [p \in AllPairs |-> 0]]
    /\ released = FALSE
    /\ dups = 0
    /\ initpc = "done"
    /\ pairObjs = [i \in 1..pool_size |-> BuiltPair(pool_size)]
    /\ aborted = <<>>
    /\ tool = BuiltPair(1).address_container
    /\ last = NoCall
    /\ n_samples = 0
    /\ sum_samples = 0
    /\ fuzz_running = 0

\* A caller enters get_container_pair and waits in containers.get().
GetCall(c) ==
    /\ pc[c] = "idle"
    /\ pc' = [pc EXCEPT ![c] = "get"]
    /\ UNCHANGED <<pool_size, containers, held, released, dups, buildVars, toolVars, envVars>>

\* containers.get() returns to the caller.
GetReturn(c) ==
    /\ pc[c] = "get"
    /\ QueueGetReady(containers)
    /\ LET r == QueueGet(containers)
       IN /\ containers' = r.rest
          /\ held' = IF r.item = NoPair THEN held
                     ELSE [held EXCEPT ![c][r.item] = @ + 1]
    /\ pc' = [pc EXCEPT ![c] = "idle"]
    /\ UNCHANGED <<pool_size, released, dups, buildVars, toolVars, envVars>>

\* release_container_pair(pair): one put, nothing else.
ReleaseContainerPair(c, p) ==
    /\ pc[c] = "idle"
    /\ QueuePutReady(containers)
    /\ containers' = QueuePut(containers, p)
    /\ held' = IF held[c][p] > 0 THEN [held EXCEPT ![c][p] = @ - 1] ELSE held
    /\ dups' = IF held[c][p] > 0 THEN dups ELSE dups + 1
    /\ released' = TRUE
    /\ UNCHANGED <<pool_size, pc, buildVars, toolVars, envVars>>

\* A caller that keeps the discipline: it releases a pair it holds.
Release(c, p) ==
    /\ held[c][p] > 0
    /\ ReleaseContainerPair(c, p)

\* Any caller, any pair (the number of undisciplined releases is bounded).
ReleaseAny(c, p) ==
    /\ held[c][p] > 0 \/ dups < MaxDup
    /\ ReleaseContainerPair(c, p)

\* ------------------------------------------------- building the pool
\* ContainerPool.__init__ before its loop: an empty queue, on a host that has
\* none of the project's directories yet or has them all from an earlier run.
InitBuild ==
    /\ host_dirs \in {{}, HostDirs}
    /\ script = ImageScript
    /\ script_before = ImageScript
    /\ patches = 0
    /\ pool_size \in 1..MaxPoolSize
    /\ containers = <<>>
    /\ pc = [c \in Callers |-> "idle"]
    /\ held = [c \in Callers |-> [p \in AllPairs |-> 0]]
    /\ released = FALSE
    /\ dups = 0
    /\ initpc = "building"
    /\ pairObjs = <<>>
    /\ aborted = <<>>
    /\ tool = BuiltPair(1).address_container
    /\ last = NoCall
    /\ n_samples = 0
    /\ sum_samples = 0
    /\ fuzz_running = 0

\* One iteration of __init__'s loop: build a pair and put it in the queue; an
\* exception of either constructor ends __init__.
InitIteration(ia, sa, ic, sc) ==
    /\ initpc = "building"
    /\ Len(pairObjs) < pool_size
    /\ LET r == CreateContainerPair(CoresPerContainer(pool_size), ia, sa, ic, sc)
       IN /\ host_dirs' = r.host_dirs
          /\ IF r.raised
             THEN /\ initpc' = "raised"
                  /\ aborted' = r.steps
                  /\ UNCHANGED <<containers, pairObjs>>
             ELSE /\ pairObjs' = Append(pairObjs, r.pair)
                  /\ containers' = QueuePut(containers, Len(pairObjs) + 1)
                  /\ initpc' = IF Len(pairObjs) + 1 = pool_size THEN "done" ELSE "building"
                  /\ UNCHANGED aborted
    /\ UNCHANGED <<pool_size, pc, held, released, dups, toolVars>>
    /\ UNCHANGED <<script, script_before, patches>>

\* Sanitizer arguments a caller may give the constructor.
SanitizerArgs == SANITIZERS \cup {"memory"}

\* ProjectContainerTool(benchmark, sanitizer) called directly, by a caller
\* other than the pool; last keeps how the call ended.  __init__ of the pool
\* runs in one thread from start to end, so such a call comes after it.
NewTool(sanitizer, img, o) ==
    LET r == Construct(sanitizer, CoresPerContainer(pool_size), img, o)
    IN /\ initpc # "building"
       /\ last' = [op |-> "construct", raised |-> r.raised, steps |-> r.steps,
                   sanitizer |-> sanitizer, image |-> img]
       /\ host_dirs' = r.host_dirs
       /\ UNCHANGED <<tool, n_samples, sum_samples, fuzz_running, script,
                      script_before, patches, poolVars, buildVars>>

NextBuild ==
    \/ \E ia, ic \in ImageResults : \E sa, sc \in StartOutcomes :
          InitIteration(ia, sa, ic, sc)
    \/ \E sanitizer \in SanitizerArgs : \E img \in ImageResults :
          \E o \in StartOutcomes : NewTool(sanitizer, img, o)

SpecBuild == InitBuild /\ [][NextBuild]_vars

\* ------------------------------------------------- the cores of a pool
MaxCoresPoolSize == 26

IntMax(a, b) == IF a < b THEN b ELSE a

\* ContainerPool.__init__ for pool sizes up to MaxCoresPoolSize, with every
\* collaborator working.
InitCores ==
    /\ EnvBuilt
    /\ pool_size \in 1..MaxCoresPoolSize
    /\ containers = <<>>
    /\ pc = [c \in Callers |-> "idle"]
    /\ held = [c \in Callers |-> [p \in AllPairs |-> 0]]
    /\ released = FALSE
    /\ dups = 0
    /\ initpc = "building"
    /\ pairObjs = <<>>
    /\ aborted = <<>>
    /\ tool = BuiltPair(1).address_container
    /\ last = NoCall
    /\ n_samples = 0
    /\ sum_samples = 0
    /\ fuzz_running = 0

NextCores == InitIteration(WarmImage, "ok", WarmImage, "ok")

SpecCores == InitCores /\ [][NextCores]_vars

Next ==
    \/ \E c \in Callers : GetCall(c)
    \/ \E c \in Callers : GetReturn(c)
    \/ \E c \in Callers : \E p \in Pairs : Release(c, p)

Spec == InitPool /\ [][Next]_vars

NextAny ==
    \/ \E c \in Callers : GetCall(c)
    \/ \E c \in Callers : GetReturn(c)
    \/ \E c \in Callers : \E p \in Pairs : ReleaseAny(c, p)

SpecAny == InitPool /\ [][NextAny]_vars

\* ------------------------------------------------- one tool's operations
MaxUpdates == 3
MaxFuzzRunning == 1

\* Runtimes given to update_runtime directly, and the wall-clock seconds a
\* coverage subprocess may need.
Samples == {0, 10, 20, 30}
CovDurations == {10, 12, 31}
Listings == {"missing", "empty", "seeds"}

\* run_timeout arguments of fuzz, and the seconds the fuzz driver may run.
RunTimeouts == {1, 60}
FuzzDurations == {1, 6, 7, 65, 66}

\* compile (lines 296-300): the command it hands to execute.
CompileCommand(t, extra) ==
    (IF ~t.rebuild_chronos_success
        THEN <<"source /etc/profile.d/mkdir.sh; ">> ELSE <<>>)
    \o <<"SANITIZER=", t.sanitizer, " ", "compile", extra>>

\* compile (lines 303-314): execute, then the command text is hidden.
CompileResult(t, extra, run, log) ==
    LET r == ExecuteResult(CompileCommand(t, extra), run, log)
    IN IF r.raised THEN [raised |-> TRUE]
       ELSE [raised |-> FALSE,
             result |-> [r.result EXCEPT !.args = "# Compiles the fuzz target."]]

\* _libfuzzer_args (lines 440-450).
LibfuzzerArgs(run_timeout) ==
    [print_final_stats |-> 1,
     max_total_time |-> run_timeout,
     len_control |-> 0,
     timeout |-> 30,
     detect_leaks |-> 0]

\* fuzz, line 341: the timeout of proc.wait.
FuzzWaitTimeoutNoMargin(run_timeout) == run_timeout
FuzzWaitTimeout(run_timeout) == run_timeout + 5

\* fuzz (lines 316-354).  open() of the log and Popen are under no try; only
\* the TimeoutExpired of wait is caught, and the driver is then left running
\* with returncode None.
FuzzResult(run_timeout, log, run, d) ==
    IF log # "ok"
    THEN [op |-> "fuzz", raised |-> TRUE, started |-> FALSE, run_timeout |-> run_timeout]
    ELSE IF run = "cannot_run"
    THEN [op |-> "fuzz", raised |-> TRUE, started |-> FALSE, run_timeout |-> run_timeout]
    ELSE LET expired == d > FuzzWaitTimeout(run_timeout)
         IN [op |-> "fuzz", raised |-> FALSE, started |-> TRUE,
             run_timeout |-> run_timeout,
             max_total_time |-> LibfuzzerArgs(run_timeout).max_total_time,
             wait_timeout |-> FuzzWaitTimeout(run_timeout),
             duration |-> d,
             timed_out |-> expired,
             returncode |-> IF expired THEN None
                            ELSE IF run = "exit0" THEN "0" ELSE "1",
             left_running |-> expired]

\* update_runtime (lines 356-362).
UpdateRuntimeResetAtZero(t, runtime) ==
    LET n == t.total_cov_executions + 1
        a == IF RatLeq(t.avg_cov_runtime, Rat(0)) THEN runtime ELSE t.avg_cov_runtime
    IN [t EXCEPT !.total_cov_executions = n,
                 !.avg_cov_runtime = RatAdd(a, RatDivInt(RatSub(runtime, a), n))]
UpdateRuntime(t, runtime) ==
    LET n == t.total_cov_executions + 1
        a == IF RatLess(t.avg_cov_runtime, Rat(0)) THEN runtime ELSE t.avg_cov_runtime
    IN [t EXCEPT !.total_cov_executions = n,
                 !.avg_cov_runtime = RatAdd(a, RatDivInt(RatSub(runtime, a), n))]

\* get_coverage, line 384.
TimeoutThresholdDefault(t) == Rat(30)
TimeoutThreshold(t) ==
    IF RatLess(Rat(0), t.avg_cov_runtime)
    THEN RatAdd(t.avg_cov_runtime, Rat(2))
    ELSE Rat(30)

\* get_coverage (lines 385-410): how the sp.run call with check=True and the
\* timeout ends.  An exception of starting the subprocess is neither
\* TimeoutExpired nor CalledProcessError.
CoverageOutcome(t, run, d) ==
    IF run = "cannot_run" THEN "raised"
    ELSE IF RatLess(TimeoutThreshold(t), Rat(d)) THEN "timeout"
    ELSE IF run = "exit1" THEN "failed"
    ELSE "ok"

\* get_coverage, lines 395-396: the outcomes after which update_runtime runs.
CoverageRecordsAlsoFailed(outcome) == outcome \in {"ok", "failed"}
CoverageRecords(outcome) == outcome = "ok"

\* execute(command, log_path)
Execute(run, log) ==
    /\ last' = [op |-> "execute", run |-> run, log |-> log]
                  @@ ExecuteResult("command", run, log)
    /\ UNCHANGED <<tool, n_samples, sum_samples, fuzz_running, poolVars, buildVars, envVars>>

\* compile(extra_commands, log_path)
Compile(extra, run, log) ==
    /\ last' = [op |-> "compile", run |-> run, log |-> log]
                  @@ CompileResult(tool, extra, run, log)
    /\ UNCHANGED <<tool, n_samples, sum_samples, fuzz_running, poolVars, buildVars, envVars>>

\* fuzz(run_timeout, log_path, corpus_dir)
Fuzz(run_timeout, log, run, d) ==
    LET r == FuzzResult(run_timeout, log, run, d)
    IN /\ r.started /\ r.left_running => fuzz_running < MaxFuzzRunning
       /\ last' = r
       /\ fuzz_running' = IF r.started /\ r.left_running
                          THEN fuzz_running + 1 ELSE fuzz_running
       /\ UNCHANGED <<tool, n_samples, sum_samples, poolVars, buildVars, envVars>>

\* A fuzz driver left running by an earlier fuzz call ends by itself.
DriverExits ==
    /\ fuzz_running > 0
    /\ fuzz_running' = fuzz_running - 1
    /\ UNCHANGED <<tool, last, n_samples, sum_samples, poolVars, buildVars, envVars>>

\* update_runtime(runtime), called from outside get_coverage.
UpdateRuntimeCall(runtime) ==
    /\ tool.total_cov_executions < MaxUpdates
    /\ tool' = UpdateRuntime(tool, Rat(runtime))
    /\ n_samples' = n_samples + 1
    /\ sum_samples' = sum_samples + runtime
    /\ last' = [op |-> "update_runtime", raised |-> FALSE, runtime |-> runtime]
    /\ UNCHANGED <<fuzz_running, poolVars, buildVars, envVars>>

\* get_coverage(corpus_dir, harness_name): os.listdir of the corpus directory
\* comes first and is under no try.
GetCoverage(listing, run, d) ==
    IF listing = "missing"
    THEN /\ last' = [op |-> "get_coverage", raised |-> TRUE, outcome |-> "raised",
                     listing |-> listing, ran |-> FALSE]
         /\ UNCHANGED <<tool, n_samples, sum_samples, fuzz_running, poolVars, buildVars, envVars>>
    ELSE LET outcome == CoverageOutcome(tool, run, d)
         IN /\ CoverageRecords(outcome) => tool.total_cov_executions < MaxUpdates
            /\ last' = [op |-> "get_coverage", raised |-> (outcome = "raised"),
                        outcome |-> outcome, listing |-> listing, ran |-> TRUE,
                        timeout |-> TimeoutThreshold(tool), duration |-> d]
            /\ tool' = IF CoverageRecords(outcome)
                       THEN UpdateRuntime(tool, Rat(d)) ELSE tool
            /\ n_samples' = IF CoverageRecords(outcome)
                            THEN n_samples + 1 ELSE n_samples
            /\ sum_samples' = IF CoverageRecords(outcome)
                              THEN sum_samples + d ELSE sum_samples
            /\ UNCHANGED <<fuzz_running, poolVars, buildVars, envVars>>

\* A tool whose construction went through, of either sanitizer and image kind.
InitTool ==
    /\ EnvBuilt
    /\ pool_size = 1
    /\ containers = <<1>>
    /\ pc = [c \in Callers |-> "idle"]
    /\ held = [c \in Callers |-> [p \in AllPairs |-> 0]]
    /\ released = FALSE
    /\ dups = 0
    /\ initpc = "done"
    /\ pairObjs = <<BuiltPair(1)>>
    /\ aborted = <<>>
    /\ \E sanitizer \in SANITIZERS :
          tool = Construct(sanitizer, CoresPerContainer(1), ColdImage, "ok").tool
    /\ last = NoCall
    /\ n_samples = 0
    /\ sum_samples = 0
    /\ fuzz_running = 0

NextTool ==
    \/ \E run \in RunOutcomes : \E log \in LogPaths : Execute(run, log)
    \/ \E run \in RunOutcomes : \E log \in LogPaths : Compile("", run, log)
    \/ \E rt \in RunTimeouts : \E log \in LogPaths \ {"none"} :
          \E run \in RunOutcomes : \E d \in FuzzDurations : Fuzz(rt, log, run, d)
    \/ DriverExits
    \/ \E runtime \in Samples : UpdateRuntimeCall(runtime)
    \/ \E listing \in Listings : \E run \in RunOutcomes :
          \E d \in CovDurations : GetCoverage(listing, run, d)

SpecTool == InitTool /\ [][NextTool]_vars

\* ------------------------------------------------- callers that take turns
\* A caller that uses one pair at a time: it enters get_container_pair only
\* while it holds no pair.
GetCallOnePair(c) ==
    /\ \A p \in AllPairs : held[c][p] = 0
    /\ GetCall(c)

NextLive ==
    \/ \E c \in Callers : GetCallOnePair(c)
    \/ \E c \in Callers : GetReturn(c)
    \/ \E c \in Callers : \E p \in Pairs : Release(c, p)

\* A caller that holds a pair releases it in the end, and a get() that could
\* return all the time does return.  Queue.get gives an item to whichever
\* waiting or arriving thread takes the queue's lock first, so a get() that
\* can return only now and then has no more than this.
FairLive ==
    /\ \A c \in Callers : WF_vars(GetReturn(c))
    /\ \A c \in Callers : \A p \in AllPairs : WF_vars(Release(c, p))

SpecLive == InitPool /\ [][NextLive]_vars /\ FairLive

\* ------------------------------------------------- patching the compile script
MaxScriptLen == 3
MaxPatches == 2

\* The lines a compile script is made of here: the command to patch, the
\* patched command, a command that differs from both, the delimiter of
\* write_to_file, an ordinary line and the empty line.
ScriptLines == {original_cmd, new_cmd, other_cmd, OFG_EOF, "exit 0", ""}

Scripts ==
    UNION {[1..n -> ScriptLines] : n \in 1..MaxScriptLen}

\* patch_compile_script(): both of its commands run without a log path, so
\* neither raises; each may fail.
PatchCompileScript(read, write) ==
    /\ patches < MaxPatches
    /\ script_before' = script
    /\ script' = PatchedScript(script, read, write)
    /\ patches' = patches + 1
    /\ last' = [op |-> "patch_compile_script", raised |-> FALSE,
                read |-> read, write |-> write]
    /\ UNCHANGED <<tool, n_samples, sum_samples, fuzz_running, host_dirs,
                   poolVars, buildVars>>

\* A tool whose container has just been started, with any compile script.
InitPatch ==
    /\ host_dirs = HostDirs
    /\ script \in Scripts
    /\ script_before = script
    /\ patches = 0
    /\ pool_size = 1
    /\ containers = <<>>
    /\ pc = [c \in Callers |-> "idle"]
    /\ held = [c \in Callers |-> [p \in AllPairs |-> 0]]
    /\ released = FALSE
    /\ dups = 0
    /\ initpc = "building"
    /\ pairObjs = <<>>
    /\ aborted = <<>>
    /\ tool = Construct("address", CoresPerContainer(1), ColdImage, "ok").tool
    /\ last = NoCall
    /\ n_samples = 0
    /\ sum_samples = 0
    /\ fuzz_running = 0

NextPatch == \E read, write \in RunOutcomes : PatchCompileScript(read, write)

SpecPatch == InitPatch /\ [][NextPatch]_vars

\* ==================================================================
\* Claims about the pool
\* ==================================================================

\* C1: with callers that release only a pair they hold, once per acquire,
\* the pairs in the queue plus the pairs checked out are pool_size in every
\* reachable state, and no pair is held by two callers (nor twice) at once.
C1_CapacityInvariant ==
    /\ Len(containers) + CheckedOut = pool_size
    /\ \A p \in Pairs : HeldCount(p) <= 1 /\ Cardinality(Holders(p)) <= 1

\* C1's case: after some release, the two pairs of a pool of two are out with
\* two different callers while a third caller waits for one.
C1_Witness ==
    /\ released
    /\ pool_size = 2
    /\ CheckedOut = 2
    /\ containers = <<>>
    /\ \E c1, c2, c3 \in Callers :
          /\ c1 # c2
          /\ held[c1][2] = 1
          /\ held[c2][1] = 1
          /\ pc[c3] = "get"

\* C2: while no release has happened, an acquire among the first pool_size
\* can return at once and one beyond them cannot return; an acquire never
\* returns from an empty queue, and when it returns the caller has a pair.
C2_AcquireBlocks ==
    /\ [](\A c \in Callers : pc[c] = "get" =>
            /\ (~released /\ CheckedOut < pool_size) => ENABLED GetReturn(c)
            /\ (~released /\ CheckedOut >= pool_size) => ~ENABLED GetReturn(c)
            /\ containers = <<>> => ~ENABLED GetReturn(c))
    /\ [][\A c \in Callers : (pc[c] = "get" /\ pc'[c] = "idle") =>
            /\ containers # <<>>
            /\ held'[c][Head(containers)] = held[c][Head(containers)] + 1]_vars

\* C2's case: every pair is checked out, nothing was released, and one more
\* caller is waiting inside get_container_pair.
C2_Witness ==
    /\ ~released
    /\ CheckedOut = pool_size
    /\ containers = <<>>
    /\ \E c \in Callers : pc[c] = "get"

\* C3: release_container_pair can be taken by any caller that is not inside
\* get_container_pair, for any pair and any queue; every release of a pair the
\* caller does not hold adds one entry beyond the capacity.
C3_ReleaseUnchecked ==
    /\ \A c \in Callers : \A p \in Pairs :
          pc[c] = "idle" => ENABLED ReleaseContainerPair(c, p)
    /\ Len(containers) + CheckedOut = pool_size + dups

\* C3's case: after a double release the same pair is held by two callers
\* at once and more pairs circulate than the pool was built with.
C3_Witness ==
    /\ dups > 0
    /\ Len(containers) + CheckedOut > pool_size
    /\ \E p \in Pairs : Cardinality(Holders(p)) >= 2

\* ==================================================================
\* Claims about building the pool
\* ==================================================================

ToolsOf(p) == {pairObjs[p].address_container, pairObjs[p].coverage_container}

\* C7: a container start that fails aborts the construction: no pair in the
\* queue has a tool without a running container, no built tool ran a step
\* after a failed start, and __init__ does not finish with such a tool.
C7_StartFailureAborts ==
    /\ \A k \in 1..Len(containers) :
          \A t \in ToolsOf(containers[k]) : t.container_running
    /\ \A p \in 1..Len(pairObjs) : \A t \in ToolsOf(p) :
          ~t.container_running => t.init_steps[Len(t.init_steps)] = "start"
    /\ initpc = "done" =>
          \A p \in 1..Len(pairObjs) : \A t \in ToolsOf(p) : t.container_running

\* ==================================================================
\* Claims about one tool's operations
\* ==================================================================

AnyGetCoverage ==
    /\ last'.op = "get_coverage"
    /\ \E listing \in Listings : \E run \in RunOutcomes : \E d \in CovDurations :
          GetCoverage(listing, run, d)

\* C4: every execute call returns a result with an exit code, and when the
\* subprocess could not be started the exit code is non-zero and both
\* streams are empty.
C4_ExecuteNeverRaises ==
    last.op = "execute" =>
        /\ ~last.raised
        /\ last.result.returncode \in {0, 1}
        /\ last.run = "cannot_run" =>
              /\ last.result.returncode # 0
              /\ last.result.stdout = ""
              /\ last.result.stderr = ""

\* C5: no compile, fuzz or get_coverage call ends in an exception, and after
\* any of them a further call can be made.
C5_OperationsReturnToReady ==
    last.op \in {"compile", "fuzz", "get_coverage"} =>
        /\ ~last.raised
        /\ ENABLED Compile("", "exit0", "none")

\* C6: a fuzz call whose driver was started waits run_timeout + 5 seconds and
\* gives the driver run_timeout as its total time; the wait expires exactly
\* when the driver needs longer than that, and the call then returns without
\* raising and without an exit code; a non-zero exit returns normally too.
C6_FuzzSoftTimeout ==
    (last.op = "fuzz" /\ last.started) =>
        /\ last.wait_timeout = last.run_timeout + 5
        /\ last.max_total_time = last.run_timeout
        /\ last.timed_out <=> (last.duration > last.run_timeout + 5)
        /\ last.timed_out => last.returncode = None
        /\ ~last.raised

\* C6's case: run_timeout 60, the driver needs 66 seconds, the wait expires
\* and fuzz returns.
C6_Witness ==
    /\ last.op = "fuzz"
    /\ last.started
    /\ last.run_timeout = 60
    /\ last.duration = 66
    /\ last.timed_out
    /\ ~last.raised

\* C8: after n updates the count is n and the average is the mean of the n
\* runtimes; 10, 20, 30 give 10, 15, 20.
C8_OnlineMean ==
    /\ tool.total_cov_executions = n_samples
    /\ n_samples >= 1 =>
          tool.avg_cov_runtime = RatNorm(sum_samples, n_samples)
    /\ LET t1 == UpdateRuntime([tool EXCEPT !.avg_cov_runtime = Rat(-1),
                                            !.total_cov_executions = 0], Rat(10))
           t2 == UpdateRuntime(t1, Rat(20))
           t3 == UpdateRuntime(t2, Rat(30))
       IN /\ t1.avg_cov_runtime = Rat(10) /\ t1.total_cov_executions = 1
          /\ t2.avg_cov_runtime = Rat(15) /\ t2.total_cov_executions = 2
          /\ t3.avg_cov_runtime = Rat(20) /\ t3.total_cov_executions = 3

\* C8's case: three updates that sum to 60, the last one 30, average 20.
C8_Witness ==
    /\ last.op = "update_runtime"
    /\ last.runtime = 30
    /\ n_samples = 3
    /\ sum_samples = 60
    /\ tool.avg_cov_runtime = Rat(20)

\* C9: a get_coverage call that ends in a timeout or a non-zero exit leaves
\* the average and the count as they were; a successful one changes them by
\* one update_runtime of the measured runtime.
C9_FailedRunKeepsTracker ==
    [][AnyGetCoverage =>
          IF last'.outcome = "ok"
          THEN tool' = UpdateRuntime(tool, Rat(last'.duration))
          ELSE tool' = tool]_vars

\* C9's case: a tracker with two samples has just seen a coverage run time
\* out, and one with a sample has seen a run fail.
C9_Witness ==
    /\ last.op = "get_coverage"
    /\ last.outcome \in {"timeout", "failed"}
    /\ tool.total_cov_executions >= 1
    /\ RatLess(Rat(0), tool.avg_cov_runtime)

\* C10: the timeout get_coverage gives the coverage subprocess is 30 when the
\* count is 0 and the average + 2 whenever the count is at least 1.
C10_TimeoutByCount ==
    [][(AnyGetCoverage /\ last'.ran /\ ~last'.raised) =>
          last'.timeout = IF tool.total_cov_executions = 0 THEN Rat(30)
                          ELSE RatAdd(tool.avg_cov_runtime, Rat(2))]_vars

\* C11: every tool of every pair is started with the CPU cap
\* max(1, SYSTEM_CORES // pool_size): the floor of the division, at least 1.
C11_FloorCores ==
    \A p \in 1..Len(pairObjs) : \A t \in ToolsOf(p) :
        t.pool_size = Rat(IntMax(1, SYSTEM_CORES \div pool_size))

\* C12: patch_compile_script leaves the compile script as it was but for
\* the $SRC term of the original command: after a call the script is the
\* script before with original_cmd replaced by new_cmd, which is the script
\* before when the command is not in it, or it is the script before when the
\* script could not be read.
C12_PatchNonDestructive ==
    last.op = "patch_compile_script" =>
        \/ script = Replace(script_before)
        \/ last.read # "exit0" /\ script = script_before

\* C13: when a fuzz or get_coverage call has returned, the subprocess it
\* started is no longer running, so no tool has a run of an earlier call
\* still in flight.
C13_NoRunInFlight ==
    /\ fuzz_running = 0
    /\ (last.op = "fuzz" /\ last.started) => ~last.left_running

\* C14: every result that execute or compile returns has an exit code, a
\* stdout and a stderr, none of them None, with a log path and without one,
\* whether the subprocess ran or could not be started.
C14_ResultPopulated ==
    (last.op \in {"execute", "compile"} /\ ~last.raised) =>
        /\ last.result.returncode \in 0..255
        /\ last.result.stdout # None
        /\ last.result.stderr # None

\* C15: the constructor stops at its first failing step.  With a sanitizer
\* that is not valid it raises after the validation alone; with no image it
\* raises after the image step, and no host directory is made and no
\* container started.  A constructor that raises inside the pool's __init__
\* ends __init__: the slot's pair is not put in the queue and no later slot
\* is built.
C15_InvalidSanitizer ==
    (last.op = "construct" /\ ~ValidateSanitizer(last.sanitizer)) =>
        /\ last.raised
        /\ last.steps = <<"validate">>

C15_NoImage ==
    (last.op = "construct" /\ ValidateSanitizer(last.sanitizer)
        /\ last.image = NoImage) =>
        /\ last.raised
        /\ last.steps = <<"validate", "image">>

C15_PoolAborted ==
    initpc = "raised" =>
        /\ aborted = <<"validate", "image">>
        /\ Len(containers) = Len(pairObjs)
        /\ Len(pairObjs) < pool_size

\* A constructor that raised made no host directory when it raised before
\* the makedirs; an iteration of the pool's loop that finds no image ends
\* __init__ and puts nothing in the queue, and nothing is put there later.
C15_AbortStep ==
    /\ (last'.op = "construct" /\ last'.raised) => host_dirs' = host_dirs
    /\ (initpc = "building" /\ initpc' = "raised"
          /\ \E ic \in ImageResults : \E sa, sc \in StartOutcomes :
                InitIteration(NoImage, sa, ic, sc)) =>
          /\ host_dirs' = host_dirs
          /\ initpc' = "raised"
    /\ (initpc = "building"
          /\ \E ia \in ImageResults : \E sa, sc \in StartOutcomes :
                InitIteration(ia, sa, NoImage, sc)) =>
          /\ initpc' = "raised"
          /\ containers' = containers
          /\ pairObjs' = pairObjs
    /\ initpc = "raised" =>
          /\ initpc' = "raised"
          /\ containers' = containers

\* C15, all of it: the three invariants above in every state and the step
\* property on every step.
C15_ConstructionAbortsAtFirstFailure ==
    /\ [](C15_InvalidSanitizer /\ C15_NoImage /\ C15_PoolAborted)
    /\ [][C15_AbortStep]_vars

\* C15's case: a pool of two whose second pair found no image, after one
\* pair was queued, and a direct construction with an invalid sanitizer.
C15_Witness ==
    /\ initpc = "raised"
    /\ Len(containers) = 1
    /\ aborted = <<"validate", "image">>
    /\ last.op = "construct"
    /\ last.sanitizer = "memory"
    /\ last.raised

\* C16: when the docker run command of a tool is issued, the host
\* directories for out, work and ccache all exist.
C16_HostDirsExistAtStart ==
    \A p \in 1..Len(pairObjs) : \A t \in ToolsOf(p) : HostDirs \subseteq t.hostdirs

\* C17: the pool hands out pairs first in, first out.  Before any release
\* the queue holds the pairs not yet handed out in the order they were
\* built; a get that returns gives the caller the pair at the head and
\* leaves the others in their order; a release puts its pair at the tail.
C17_FifoOrder ==
    /\ [](~released =>
            containers = [i \in 1..Len(containers) |-> i + CheckedOut])
    /\ [][\A c \in Callers : (pc[c] = "get" /\ pc'[c] = "idle") =>
            /\ containers # <<>>
            /\ containers' = Tail(containers)
            /\ held' = [held EXCEPT ![c][Head(containers)] = @ + 1]]_vars
    /\ [][\A c \in Callers : \A p \in Pairs :
            Release(c, p) => containers' = containers \o <<p>>]_vars

\* C17's case: the pairs of a pool of two were released in the order 2, 1
\* and a caller is about to get one.
C17_Witness ==
    /\ released
    /\ containers = <<2, 1>>
    /\ \E c \in Callers : pc[c] = "get"

\* C18 as stated: every caller that has entered get_container_pair leaves it
\* with a pair, when every pair obtained is released in the end.
C18_EveryAcquireReturns ==
    \A c \in Callers : pc[c] = "get" ~> pc[c] = "idle"

\* C18, amended: while a caller waits in get_container_pair, a pair that is
\* out comes back to the queue, and a pair that is in the queue is handed to
\* some caller; the caller that gets it need not be the one that waits.
C18_PairsKeepMoving ==
    \A c \in Callers :
        /\ (pc[c] = "get" /\ containers = <<>>) ~>
               (pc[c] = "idle" \/ containers # <<>>)
        /\ (pc[c] = "get" /\ containers # <<>>) ~>
               (pc[c] = "idle" \/ containers = <<>>)

\* C18's case: the one pair of a pool is out again after a release, and two
\* callers wait for it.
C18_Witness ==
    /\ released
    /\ pool_size = 1
    /\ containers = <<>>
    /\ \E c1, c2 \in Callers : c1 # c2 /\ pc[c1] = "get" /\ pc[c2] = "get"

=============================================================================
